---- MODULE Spec2Model ----
(***************************************************************************)
(* Turn-based battle resolution and monster progression of the game        *)
(* (src/src/battle.rs).  Two parts:                                        *)
(*   - calculate_turn, the pure turn resolver, explored over drawn inputs  *)
(*     by the specification SpecTurn;                                      *)
(*   - key_press_handler, one battle tick at a time, with the entity       *)
(*     components, the tags and the GameProgress resource as state,        *)
(*     explored by the specification Spec.                                 *)
(* usize values stay far below 2^64 within the bounds, so the arithmetic   *)
(* is plain; the one unsigned decrement that can pass 0 is modelled where  *)
(* it occurs.                                                              *)
(***************************************************************************)
EXTENDS Integers, Sequences, FiniteSets, TLC

VARIABLES
    turn_in,      \* arguments of a calculate_turn call (SpecTurn)
    turn_crit,    \* the two crit draws of that call
    turn_out,     \* its result, or "none" before the call
    search_in,    \* receiver and argument of a next_monster_cyclic call (SpecSearch)
    search_out,   \* its result in a tuple, or "none" before the call
    input,        \* Input<KeyCode>: the keys just pressed in the frame of the last tick
    cameras,      \* number of entities the handler's camera query matches
    game_state,   \* the outer GameState: "Playing" or "Battle"
    comps,        \* entity -> its live components (Level, Health, Strength, Defense, Element)
    selected,     \* entities holding SelectedMonster
    party,        \* entities holding PartyMonster
    enemy,        \* entities holding Enemy
    boss,         \* entities holding Boss
    game_progress,\* the GameProgress resource
    npcs,         \* number of NPC entities spawned by boss victories
    events,       \* the info! messages of the last tick that name its branch
    panicked,     \* a system panicked: the process is gone
    player_health_text, \* the value of the PlayerHealth text in the last frame rendered: <<>> while empty
    enemy_health_text   \* the value of the EnemyHealth text in the last frame rendered

turn_vars == <<turn_in, turn_crit, turn_out>>
search_vars == <<search_in, search_out>>
display_vars == <<player_health_text, enemy_health_text>>
battle_vars == <<input, cameras, game_state, comps, selected, party, enemy, boss, game_progress,
                 npcs, events, panicked, player_health_text, enemy_health_text>>
vars == <<turn_in, turn_crit, turn_out, search_in, search_out, input, cameras,
          game_state, comps,
          selected, party, enemy, boss, game_progress, npcs, events, panicked,
          player_health_text, enemy_health_text>>

----------------------------------------------------------------------------
(* Elements and the type table.  The table holds f32 multipliers; they are *)
(* kept as quarters (TypeDen), which every entry is a multiple of, so the  *)
(* f32 product with a small integer is exact.                              *)

Elements == {0, 1, 2}

TypeDen == 4

\* type_modifier[attacker][defender] in quarters:
\*     1.0 2.0 0.5
\*     1.0 1.0 2.0
\*     1.5 0.5 1.0
\* It is not symmetric, nor reciprocal ([0][1] = 2.0, [1][0] = 1.0).
type_modifier == <<  <<4, 8, 2>>,  <<4, 4, 8>>,  <<6, 2, 4>>  >>

\* type_system.type_modifier[*a as usize][*b as usize]
Effectiveness(a, b) == type_modifier[a + 1][b + 1]

----------------------------------------------------------------------------
(* calculate_turn                                                          *)

IsCritStrict(stg, def, crit) == stg.crt > def.crt_res /\ crit < stg.crt - def.crt_res

\* the crit branch is entered only when crt > crt_res; crit is the draw
\* from gen_range(0..=100)
IsCrit(stg, def, crit) == stg.crt > def.crt_res /\ crit <= stg.crt - def.crt_res

DirectionDamageFloor(stg, def, crit) ==
    IF stg.atk <= def.def
    THEN 1
    ELSE IF IsCrit(stg, def, crit)
         THEN (stg.atk - def.def) * stg.crt_dmg
         ELSE stg.atk - def.def

\* damage of one direction before the elemental multiplier
DirectionDamage(stg, def, crit) ==
    IF stg.atk <= def.def
    THEN 0
    ELSE IF IsCrit(stg, def, crit)
         THEN (stg.atk - def.def) * stg.crt_dmg
         ELSE stg.atk - def.def

ElementalDamageSwapped(dmg, acting_type, other_type) ==
    (Effectiveness(other_type, acting_type) * dmg) \div TypeDen

\* (type_modifier[acting][other] * dmg as f32).trunc() as usize
ElementalDamage(dmg, acting_type, other_type) ==
    (Effectiveness(acting_type, other_type) * dmg) \div TypeDen

calculate_turn_player_defend_only(player_stg, player_def, player_type, player_action, enemy_stg, enemy_def, enemy_type, enemy_action, crit0, crit1) ==
    LET r0 == DirectionDamage(player_stg, enemy_def, crit0)
        r1 == DirectionDamage(enemy_stg, player_def, crit1)
    IN  IF player_action = 1
        THEN <<0, 0>>
        ELSE << IF player_action = 2
                THEN ElementalDamage(r0, player_type, enemy_type) ELSE r0,
                IF enemy_action = 2
                THEN ElementalDamage(r1, enemy_type, player_type) ELSE r1 >>

\* a resolver that takes every enemy action from 2 up as elemental
calculate_turn_special_elemental(player_stg, player_def, player_type, player_action, enemy_stg, enemy_def, enemy_type, enemy_action, crit0, crit1) ==
    LET r0 == DirectionDamage(player_stg, enemy_def, crit0)
        r1 == DirectionDamage(enemy_stg, player_def, crit1)
    IN  IF player_action = 1 \/ enemy_action = 1
        THEN <<0, 0>>
        ELSE << IF player_action = 2
                THEN ElementalDamage(r0, player_type, enemy_type) ELSE r0,
                IF enemy_action >= 2
                THEN ElementalDamage(r1, enemy_type, player_type) ELSE r1 >>

\* returns <<damage to enemy, damage to player>>; crit0 and crit1 are the
\* two draws of thread_rng().gen_range(0..=100)
calculate_turn(player_stg, player_def, player_type, player_action, enemy_stg, enemy_def, enemy_type, enemy_action, crit0, crit1) ==
    LET r0 == DirectionDamage(player_stg, enemy_def, crit0)
        r1 == DirectionDamage(enemy_stg, player_def, crit1)
    IN  IF player_action = 1 \/ enemy_action = 1
        THEN <<0, 0>>
        ELSE << IF player_action = 2
                THEN ElementalDamage(r0, player_type, enemy_type) ELSE r0,
                IF enemy_action = 2
                THEN ElementalDamage(r1, enemy_type, player_type) ELSE r1 >>

\* the arguments of a call as one record
TurnArgs(player_stg, player_def, player_type, player_action, enemy_stg, enemy_def, enemy_type, enemy_action) ==
    [player_stg |-> player_stg, player_def |-> player_def,
     player_type |-> player_type, player_action |-> player_action,
     enemy_stg |-> enemy_stg, enemy_def |-> enemy_def,
     enemy_type |-> enemy_type, enemy_action |-> enemy_action]

CallTurn(a, crit0, crit1) ==
    calculate_turn(a.player_stg, a.player_def, a.player_type, a.player_action,
                   a.enemy_stg, a.enemy_def, a.enemy_type, a.enemy_action,
                   crit0, crit1)

----------------------------------------------------------------------------
(* Bounds of the battle model                                              *)

MaxEntities == 3     \* monster entities ever spawned (the first one included);
                     \* encounters stop once they are
MaxLevel == 2        \* largest current_level the overworld reaches
MaxWrapped == 1      \* how far num_living_monsters is followed below 0

Entities == 1..MaxEntities

\* 0: attack 1: defend 2: elemental 3: special
Actions == 0..3

Keys == {"A", "E", "Q", "D", "C", "Key1", "Key2"}

\* the crit draws that matter: 0 crits whenever a crit is possible, 100
\* only when the chance reaches 100
Rolls == {0, 100}

----------------------------------------------------------------------------
(* Stat bundles                                                            *)

MonsterStats(level, health, max_health, atk, crt, crt_dmg, def, crt_res, typing) ==
    [lvl |-> [level |-> level],
     hp |-> [health |-> health, max_health |-> max_health],
     stg |-> [atk |-> atk, crt |-> crt, crt_dmg |-> crt_dmg],
     def |-> [def |-> def, crt_res |-> crt_res],
     typing |-> typing]

\* MonsterStats {..Default::default()}, the player's first monster
DefaultMonsterStats == MonsterStats(1, 10, 10, 6, 25, 2, 1, 10, 0)

\* the bundle an enemy is spawned with at a given current_level; a boss has
\* inflated health and resists crits
EnemyStatsFor(level, is_boss) ==
    IF is_boss
    THEN MonsterStats(level, 15 * level, 15 * level, 22, 10, 2, 1, 40, 1)
    ELSE MonsterStats(level, 10 * level, 10 * level, 22, 10, 2, 1, 10, 1)

----------------------------------------------------------------------------
(* GameProgress                                                            *)

\* the ordinals of the roster are 0 .. n-1; monster_id_entity[i + 1] is the
\* entity at ordinal i
RosterSize(gp) == Len(gp.monster_id_entity)

EntityAt(gp, ordinal) == gp.monster_id_entity[ordinal + 1]

OrdinalOf(gp, entity) ==
    CHOOSE i \in 0..(RosterSize(gp) - 1) : EntityAt(gp, i) = entity

InRoster(gp, entity) == \E i \in 0..(RosterSize(gp) - 1) : EntityAt(gp, i) = entity

MapRemove(f, k) == [x \in DOMAIN f \ {k} |-> f[x]]

MapInsert(f, k, v) == [x \in DOMAIN f \cup {k} |-> IF x = k THEN v ELSE f[x]]

\* GameProgress::new_monster
new_monster(gp, entity, stats) ==
    [gp EXCEPT !.monster_id_entity = Append(@, entity),
               !.monster_entity_to_stats = MapInsert(@, entity, stats),
               !.num_living_monsters = @ + 1]

\* GameProgress::win_boss
win_boss(gp) == [gp EXCEPT !.num_boss_defeated = @ + 1]

\* GameProgress::win_battle
win_battle(gp) == gp

\* GameProgress::get_quest_rewards: the quests for this element pay out one
\* heal item and two strength buffs, so that a buff can be used while the
\* charges of another are running
get_quest_rewards(gp, element) ==
    [gp EXCEPT !.player_inventory = << @[1] + 1, @[2] + 2 >>]

\* a search that takes the monster after `entity` whatever its health
next_monster_cyclic_any(gp, entity) ==
    IF ~InRoster(gp, entity) \/ RosterSize(gp) < 2 THEN 0
    ELSE EntityAt(gp, (OrdinalOf(gp, entity) + 1) % RosterSize(gp))

\* the candidates of the cyclic search from ordinal c, in search order
CyclicOrder(gp, c) ==
    [i \in 1..(RosterSize(gp) - 1) |-> (c + i) % RosterSize(gp)]

\* GameProgress::next_monster_cyclic: the first entity after `entity` in
\* ordinal order, wrapping, whose recorded health is > 0; 0 stands for None
next_monster_cyclic(gp, entity) ==
    IF ~InRoster(gp, entity) THEN 0
    ELSE
    LET order == CyclicOrder(gp, OrdinalOf(gp, entity))
        alive(i) == /\ EntityAt(gp, order[i]) # entity
                    /\ gp.monster_entity_to_stats[EntityAt(gp, order[i])].hp.health > 0
        hits == {i \in DOMAIN order : alive(i)}
    IN  IF hits = {} THEN 0
        ELSE EntityAt(gp, order[CHOOSE i \in hits : \A j \in hits : i <= j])

----------------------------------------------------------------------------
(* One run of key_press_handler.  The run works on a context: the          *)
(* resource and the components it mutates at once, the queue of deferred   *)
(* commands, the messages it logs, and whether it panicked.                *)

Ctx(gp, cs) ==
    [gp |-> gp, comps |-> cs, cmds |-> <<>>, ev |-> <<>>, panic |-> FALSE]

Cmd(c, op, e, arg) == [c EXCEPT !.cmds = Append(@, [op |-> op, e |-> e, arg |-> arg])]

Info(c, msg) == [c EXCEPT !.ev = Append(@, msg)]

\* an end of the battle that leaves the Enemy tag on the opponent
end_battle_keeps_enemy(c, my_monster, enemy_monster) ==
    LET c1 == [c EXCEPT !.gp.enemy_stats = MapRemove(@, enemy_monster)]
    IN  IF RosterSize(c1.gp) = 0
        THEN [c1 EXCEPT !.panic = TRUE]
        ELSE LET first_monster == EntityAt(c1.gp, 0)
             IN  Cmd(Cmd(Cmd(c1,
                     "remove_selected", my_monster, 0),
                     "insert_selected", first_monster, 0),
                     "next_state", 0, "Playing")

\* end_battle!
end_battle(c, my_monster, enemy_monster) ==
    LET c1 == [c EXCEPT !.gp.enemy_stats = MapRemove(@, enemy_monster)]
    IN  IF RosterSize(c1.gp) = 0
        THEN [c1 EXCEPT !.panic = TRUE]
        ELSE LET first_monster == EntityAt(c1.gp, 0)
             IN  Cmd(Cmd(Cmd(Cmd(c1,
                     "remove_selected", my_monster, 0),
                     "insert_selected", first_monster, 0),
                     "remove_enemy", enemy_monster, 0),
                     "next_state", 0, "Playing")

\* a level-up that forgets to restore the health
LevelledStatsNoHeal(stats, up_by) ==
    [stats EXCEPT !.lvl.level = @ + 1 * up_by,
                  !.hp.max_health = @ + 10 * up_by,
                  !.stg.atk = @ + 2 * up_by,
                  !.stg.crt = @ + 5 * up_by,
                  !.def.def = @ + 1 * up_by]

\* the stats monster_level_up! writes back
LevelledStats(stats, up_by) ==
    [stats EXCEPT !.lvl.level = @ + 1 * up_by,
                  !.hp.max_health = @ + 10 * up_by,
                  !.hp.health = stats.hp.max_health + 10 * up_by,
                  !.stg.atk = @ + 2 * up_by,
                  !.stg.crt = @ + 5 * up_by,
                  !.def.def = @ + 1 * up_by]

\* monster_level_up!
monster_level_up(c, my_monster, up_by) ==
    IF c.panic THEN c
    ELSE IF my_monster \notin DOMAIN c.gp.monster_entity_to_stats
    THEN [c EXCEPT !.panic = TRUE]
    ELSE LET stats == LevelledStats(c.gp.monster_entity_to_stats[my_monster], up_by)
             c1 == [c EXCEPT !.gp.monster_entity_to_stats[my_monster] = stats]
         IN  Cmd(c1, "insert_bundle", my_monster, stats)

\* for pm in party_monsters.iter_mut() { monster_level_up!(.., pm.3, 1) }
RECURSIVE LevelUpEach(_, _)
LevelUpEach(c, pms) ==
    IF pms = {} THEN c
    ELSE LET pm == CHOOSE x \in pms : \A y \in pms : x <= y
         IN  LevelUpEach(monster_level_up(c, pm, 1), pms \ {pm})

\* a switch that also sends the game back to the overworld
SwitchOrEndLeaves(c, player_entity, enemy_entity) ==
    LET next_monster == next_monster_cyclic(c.gp, player_entity)
    IN  IF next_monster = 0
        THEN end_battle(Info(c, "Your monster was defeated."),
                        player_entity, enemy_entity)
        ELSE Cmd(Cmd(Cmd(Info(c, "Your monster was defeated. Switching to next monster."),
                 "remove_selected", player_entity, 0),
                 "insert_selected", next_monster, 0),
                 "next_state", 0, "Playing")

\* the "switch or end" block that follows a fallen active monster
SwitchOrEnd(c, player_entity, enemy_entity) ==
    LET next_monster == next_monster_cyclic(c.gp, player_entity)
    IN  IF next_monster = 0
        THEN end_battle(Info(c, "Your monster was defeated."),
                        player_entity, enemy_entity)
        ELSE Cmd(Cmd(Info(c, "Your monster was defeated. Switching to next monster."),
                 "remove_selected", player_entity, 0),
                 "insert_selected", next_monster, 0)

\* game_progress.num_living_monsters -= 1 on a usize: with overflow checks
\* (debug builds) a decrement at 0 panics, without them it wraps; the
\* wrapped value usize::MAX is kept as -1, its value modulo 2^64
DecrementLiving(c, overflow_checks) ==
    IF c.gp.num_living_monsters = 0 /\ overflow_checks
    THEN [c EXCEPT !.panic = TRUE]
    ELSE [c EXCEPT !.gp.num_living_monsters = @ - 1]

\* "update game progress / check for boss": the counters and the rewards
update_game_progress(c, enemy_boss, enemy_type) ==
    IF enemy_boss
    THEN [Info(c, "Boss defeated!") EXCEPT
             !.gp = win_boss(get_quest_rewards(@, enemy_type))]
    ELSE [c EXCEPT !.gp = get_quest_rewards(win_battle(@), enemy_type)]

\* the stats of a captured monster that keep the health it was spawned with
new_monster_stats_unclamped(got, current_level) == got

\* "Clamp health down so we don't keep boss health"
new_monster_stats(got, current_level) ==
    [got EXCEPT !.hp.health = current_level * 10,
                !.hp.max_health = current_level * 10]

\* the enemy is defeated: capture, rewards, level-ups, end of the battle
Victory(c, player_entity, enemy_entity, enemy_boss, enemy_type, pms) ==
    LET c0 == Info(c, "Enemy monster defeated. Your monsters will level up!")
    IN  IF enemy_entity \notin DOMAIN c0.gp.enemy_stats
        THEN [c0 EXCEPT !.panic = TRUE]
        ELSE
        LET got == c0.gp.enemy_stats[enemy_entity]
            stats == new_monster_stats(got, c0.gp.current_level)
            c1 == [c0 EXCEPT !.gp.enemy_stats = MapRemove(@, enemy_entity)]
            c2 == Cmd(c1, "insert_party", enemy_entity, 0)
            c3 == [c2 EXCEPT !.gp = new_monster(@, enemy_entity, stats)]
            c4 == update_game_progress(c3, enemy_boss, enemy_type)
            c5 == LevelUpEach(c4, pms)
            c6 == monster_level_up(c5, player_entity, 1)
            c7 == monster_level_up(c6, enemy_entity, 1)
            c8 == IF enemy_boss /\ ~c7.panic
                  THEN Cmd(Info(Cmd(c7, "remove_boss", enemy_entity, 0),
                                "Someone appears in the dust!"),
                           "spawn_npc", 0, 0)
                  ELSE c7
        IN  IF c8.panic THEN c8 ELSE end_battle(c8, player_entity, enemy_entity)

\* the message logged for the enemy action that was drawn
EnemyActionMsg(enemy_action) ==
    IF enemy_action = 0 THEN "Enemy attacks!"
    ELSE IF enemy_action = 1 THEN "Enemy defends!"
    ELSE IF enemy_action = 2 THEN "Enemy uses an elemental attack!"
    ELSE "Enemy uses its special ability!"

BuffMsg == "You will deal extra damage this turn."

\* a buff that is applied without using up a charge
TakeBuffChargeFree(c) == IF c.gp.turns_left_of_buff[1] > 0 THEN Info(c, BuffMsg) ELSE c

\* let str_buff_damage = if turns_left_of_buff[0] > 0 { .. -= 1; .. }: the
\* charge is taken before the turn is calculated
TakeBuffCharge(c) ==
    IF c.gp.turns_left_of_buff[1] > 0
    THEN [Info(c, BuffMsg) EXCEPT !.gp.turns_left_of_buff[1] = @ - 1]
    ELSE c

\* the value of str_buff_damage, from the counter before the charge is taken
str_buff_damage(gp) == IF gp.turns_left_of_buff[1] > 0 THEN gp.current_level ELSE 0

\* a reset that leaves the bonus in the stat
ResetStrengthForgotten(stg, bonus) == stg

\* player_stg.atk -= str_buff_damage
ResetStrength(stg, bonus) == [stg EXCEPT !.atk = @ - bonus]

\* an outcome that looks at the player's monster first
OutcomePlayerFirst(c, player_entity, enemy_entity, enemy_boss, enemy_type, pms, overflow_checks) ==
    IF c.comps[player_entity].hp.health <= 0
    THEN LET c3 == DecrementLiving(c, overflow_checks)
         IN  IF c3.panic THEN c3
             ELSE SwitchOrEnd(c3, player_entity, enemy_entity)
    ELSE IF c.comps[enemy_entity].hp.health <= 0
    THEN Victory(c, player_entity, enemy_entity, enemy_boss, enemy_type, pms)
    ELSE c

\* if enemy_health.health <= 0 { .. } else if player_health.health <= 0 { .. }
Outcome(c, player_entity, enemy_entity, enemy_boss, enemy_type, pms, overflow_checks) ==
    IF c.comps[enemy_entity].hp.health <= 0
    THEN Victory(c, player_entity, enemy_entity, enemy_boss, enemy_type, pms)
    ELSE IF c.comps[player_entity].hp.health <= 0
    THEN LET c3 == DecrementLiving(c, overflow_checks)
         IN  IF c3.panic THEN c3
             ELSE SwitchOrEnd(c3, player_entity, enemy_entity)
    ELSE c

\* the Attack (player_action 0) and ElementalAttack (player_action 2) handlers
Fight(c, player_entity, enemy_entity, enemy_boss, pms, player_action, enemy_action, crit0, crit1, overflow_checks) ==
    LET bonus == str_buff_damage(c.gp)
        c1 == TakeBuffCharge(Info(c, EnemyActionMsg(enemy_action)))
        p == c1.comps[player_entity]
        e == c1.comps[enemy_entity]
        \* player_stg.atk += str_buff_damage
        player_stg == [p.stg EXCEPT !.atk = @ + bonus]
        args == TurnArgs(player_stg, p.def, p.typing, player_action,
                         e.stg, e.def, e.typing, enemy_action)
        turn_result == CallTurn(args, crit0, crit1)
        c2 == [c1 EXCEPT !.comps[player_entity].stg = ResetStrength(player_stg, bonus),
                         !.comps[player_entity].hp.health = @ - turn_result[2],
                         !.comps[enemy_entity].hp.health = @ - turn_result[1]]
    IN  Outcome(c2, player_entity, enemy_entity, enemy_boss, e.typing, pms, overflow_checks)

\* a heal that does not clamp
HealedUnclamped(hp, heal_amount) == [hp EXCEPT !.health = @ + heal_amount]

\* the clamped heal of one Health component
Healed(hp, heal_amount) ==
    IF hp.health + heal_amount > hp.max_health
    THEN [hp EXCEPT !.health = hp.max_health]
    ELSE [hp EXCEPT !.health = @ + heal_amount]

\* for mut pm in party_monsters.iter_mut() { .. }
RECURSIVE HealEach(_, _, _)
HealEach(c, pms, heal_amount) ==
    IF pms = {} THEN c
    ELSE LET pm == CHOOSE x \in pms : \A y \in pms : x <= y
             c1 == IF c.comps[pm].hp.health <= 0
                   THEN [c EXCEPT !.gp.num_living_monsters = @ + 1]
                   ELSE c
             c2 == [c1 EXCEPT !.comps[pm].hp = Healed(@, heal_amount)]
         IN  HealEach(c2, pms \ {pm}, heal_amount)

\* the Key1 handler
UseHealItem(c, player_entity, pms) ==
    IF c.gp.player_inventory[1] > 0
    THEN LET c1 == [c EXCEPT !.gp.player_inventory[1] = @ - 1]
             heal_amount == c1.gp.current_level * 3
             c2 == HealEach(c1, pms, heal_amount)
             c3 == [c2 EXCEPT !.comps[player_entity].hp = Healed(@, heal_amount)]
         IN  Info(c3, "health restored.")
    ELSE c

\* a buff that is used without looking at the inventory
UseStrengthBuffUnchecked(c) ==
    [Info(c, "You used a strength buff.") EXCEPT
        !.gp.player_inventory[2] = @ - 1,
        !.gp.turns_left_of_buff[1] = 5]

\* a buff whose charges add up
UseStrengthBuffStacking(c) ==
    IF c.gp.player_inventory[2] > 0
    THEN [Info(c, "You used a strength buff.") EXCEPT
             !.gp.player_inventory[2] = @ - 1,
             !.gp.turns_left_of_buff[1] = @ + 5]
    ELSE c

\* the Key2 handler
UseStrengthBuff(c) ==
    IF c.gp.player_inventory[2] > 0
    THEN [Info(c, "You used a strength buff.") EXCEPT
             !.gp.player_inventory[2] = @ - 1,
             !.gp.turns_left_of_buff[1] = 5]
    ELSE c

\* a cycle that hands the tag to the next monster without taking it away
CycleMonsterKeepsTag(c, player_entity) ==
    LET next_monster == next_monster_cyclic(c.gp, player_entity)
    IN  IF next_monster = 0
        THEN Info(c, "No monster to cycle to.")
        ELSE Cmd(Info(c, "Cycling to next monster in party."),
                 "insert_selected", next_monster, 0)

\* the C handler
CycleMonster(c, player_entity) ==
    LET next_monster == next_monster_cyclic(c.gp, player_entity)
    IN  IF next_monster = 0
        THEN Info(c, "No monster to cycle to.")
        ELSE Cmd(Cmd(Info(c, "Cycling to next monster in party."),
                 "remove_selected", player_entity, 0),
                 "insert_selected", next_monster, 0)

\* an abort that strips the tag and stays in the battle
AbortStaysInBattle(c, enemy_entity) == Cmd(c, "remove_enemy", enemy_entity, 0)

\* the Q handler
Abort(c, enemy_entity) ==
    Cmd(Cmd(c, "remove_enemy", enemy_entity, 0), "next_state", 0, "Playing")

\* a chain in which the use of a heal item hands the enemy a turn
KeyBranchItemTakesTurn(c, pressed, player_entity, enemy_entity, enemy_boss, pms, enemy_action, crit0, crit1, overflow_checks) ==
    IF "A" \in pressed
    THEN Fight(Info(c, "You attack!"), player_entity, enemy_entity, enemy_boss,
               pms, 0, enemy_action, crit0, crit1, overflow_checks)
    ELSE IF "E" \in pressed
    THEN Fight(Info(c, "You use your elemental attack!"), player_entity,
               enemy_entity, enemy_boss, pms, 2, enemy_action, crit0, crit1,
               overflow_checks)
    ELSE IF "Q" \in pressed THEN Abort(c, enemy_entity)
    ELSE IF "D" \in pressed THEN c
    ELSE IF "C" \in pressed THEN CycleMonster(c, player_entity)
    ELSE IF "Key1" \in pressed
    THEN Fight(UseHealItem(c, player_entity, pms), player_entity, enemy_entity,
               enemy_boss, pms, 1, enemy_action, crit0, crit1, overflow_checks)
    ELSE IF "Key2" \in pressed THEN UseStrengthBuff(c)
    ELSE c

\* a chain that goes on to the buff key after an attack
KeyBranchAttackThenBuff(c, pressed, player_entity, enemy_entity, enemy_boss, pms, enemy_action, crit0, crit1, overflow_checks) ==
    IF "A" \in pressed
    THEN LET c1 == Fight(Info(c, "You attack!"), player_entity, enemy_entity,
                         enemy_boss, pms, 0, enemy_action, crit0, crit1,
                         overflow_checks)
         IN  IF "Key2" \in pressed /\ ~c1.panic THEN UseStrengthBuff(c1) ELSE c1
    ELSE IF "E" \in pressed
    THEN Fight(Info(c, "You use your elemental attack!"), player_entity,
               enemy_entity, enemy_boss, pms, 2, enemy_action, crit0, crit1,
               overflow_checks)
    ELSE IF "Q" \in pressed THEN Abort(c, enemy_entity)
    ELSE IF "D" \in pressed THEN c
    ELSE IF "C" \in pressed THEN CycleMonster(c, player_entity)
    ELSE IF "Key1" \in pressed THEN UseHealItem(c, player_entity, pms)
    ELSE IF "Key2" \in pressed THEN UseStrengthBuff(c)
    ELSE c

\* a chain in which Defend is resolved as a turn against the enemy's action
KeyBranchDefendTakesTurn(c, pressed, player_entity, enemy_entity, enemy_boss, pms, enemy_action, crit0, crit1, overflow_checks) ==
    IF "A" \in pressed
    THEN Fight(Info(c, "You attack!"), player_entity, enemy_entity, enemy_boss,
               pms, 0, enemy_action, crit0, crit1, overflow_checks)
    ELSE IF "E" \in pressed
    THEN Fight(Info(c, "You use your elemental attack!"), player_entity,
               enemy_entity, enemy_boss, pms, 2, enemy_action, crit0, crit1,
               overflow_checks)
    ELSE IF "Q" \in pressed THEN Abort(c, enemy_entity)
    ELSE IF "D" \in pressed
    THEN Fight(c, player_entity, enemy_entity, enemy_boss, pms, 1, enemy_action,
               crit0, crit1, overflow_checks)
    ELSE IF "C" \in pressed THEN CycleMonster(c, player_entity)
    ELSE IF "Key1" \in pressed THEN UseHealItem(c, player_entity, pms)
    ELSE IF "Key2" \in pressed THEN UseStrengthBuff(c)
    ELSE c

\* the if / else-if chain over input.just_pressed(..)
KeyBranch(c, pressed, player_entity, enemy_entity, enemy_boss, pms, enemy_action, crit0, crit1, overflow_checks) ==
    IF "A" \in pressed
    THEN Fight(Info(c, "You attack!"), player_entity, enemy_entity, enemy_boss,
               pms, 0, enemy_action, crit0, crit1, overflow_checks)
    ELSE IF "E" \in pressed
    THEN Fight(Info(c, "You use your elemental attack!"), player_entity,
               enemy_entity, enemy_boss, pms, 2, enemy_action, crit0, crit1,
               overflow_checks)
    ELSE IF "Q" \in pressed THEN Abort(c, enemy_entity)
    ELSE IF "D" \in pressed THEN c
    ELSE IF "C" \in pressed THEN CycleMonster(c, player_entity)
    ELSE IF "Key1" \in pressed THEN UseHealItem(c, player_entity, pms)
    ELSE IF "Key2" \in pressed THEN UseStrengthBuff(c)
    ELSE c

\* the three queries of the system, over the tags as they are when it runs
MyMonsterQuery == {e \in selected : e \notin enemy}

EnemyMonsterQuery == {e \in enemy : e \notin selected}

PartyMonstersQuery == {e \in party : e \notin selected /\ e \notin enemy}

\* a handler that goes on without its monsters
MonstersMissingUnchecked == FALSE

\* my_monster.is_empty() || enemy_monster.is_empty()
MonstersMissing == MyMonsterQuery = {} \/ EnemyMonsterQuery = {}

\* key_press_handler: the context it ends with
key_press_handler(pressed, enemy_action, crit0, crit1, overflow_checks) ==
    LET c0 == Ctx(game_progress, comps)
    IN  IF MonstersMissing
        THEN Cmd(Info(c0, "Monsters are missing!"), "next_state", 0, "Playing")
        ELSE IF cameras = 0
        THEN Cmd(Info(c0, "No spawned camera?"), "next_state", 0, "Playing")
        ELSE IF Cardinality(MyMonsterQuery) # 1 \/ Cardinality(EnemyMonsterQuery) # 1
        THEN [c0 EXCEPT !.panic = TRUE]     \* single_mut() needs exactly one match
        ELSE
        LET player_entity == CHOOSE e \in MyMonsterQuery : TRUE
            enemy_entity == CHOOSE e \in EnemyMonsterQuery : TRUE
            c1 == IF c0.comps[player_entity].hp.health <= 0
                  THEN SwitchOrEnd(c0, player_entity, enemy_entity)
                  ELSE c0
        IN  IF c1.panic THEN c1
            ELSE KeyBranch(c1, pressed, player_entity, enemy_entity,
                           enemy_entity \in boss, PartyMonstersQuery,
                           enemy_action, crit0, crit1, overflow_checks)

----------------------------------------------------------------------------
(* The deferred commands, applied in queue order when the system has run   *)

World(cs, sel, par, en, bo, gs, n) ==
    [comps |-> cs, selected |-> sel, party |-> par, enemy |-> en, boss |-> bo,
     game_state |-> gs, npcs |-> n]

ApplyCommand(w, cmd) ==
    CASE cmd.op = "remove_selected" -> [w EXCEPT !.selected = @ \ {cmd.e}]
      [] cmd.op = "insert_selected" -> [w EXCEPT !.selected = @ \cup {cmd.e}]
      [] cmd.op = "remove_enemy"    -> [w EXCEPT !.enemy = @ \ {cmd.e}]
      [] cmd.op = "insert_party"    -> [w EXCEPT !.party = @ \cup {cmd.e}]
      [] cmd.op = "remove_boss"     -> [w EXCEPT !.boss = @ \ {cmd.e}]
      [] cmd.op = "insert_bundle"   -> [w EXCEPT !.comps[cmd.e] = cmd.arg]
      [] cmd.op = "spawn_npc"       -> [w EXCEPT !.npcs = @ + 1]
      [] cmd.op = "next_state"      -> [w EXCEPT !.game_state = cmd.arg]

RECURSIVE ApplyCommands(_, _)
ApplyCommands(w, cmds) ==
    IF cmds = <<>> THEN w
    ELSE ApplyCommands(ApplyCommand(w, Head(cmds)), Tail(cmds))

----------------------------------------------------------------------------
(* The state machine                                                       *)

EmptyMap == [x \in {} |-> 0]

\* GameProgress::default()
DefaultGameProgress ==
    [monster_id_entity |-> <<>>,
     monster_entity_to_stats |-> EmptyMap,
     enemy_stats |-> EmptyMap,
     num_living_monsters |-> 0,
     current_level |-> 1,
     turns_left_of_buff |-> <<0>>,
     player_inventory |-> <<0, 0>>,
     num_boss_defeated |-> 0]

\* the state setup_game leaves: one monster, selected and in the party
Init ==
    /\ turn_in = "none"
    /\ turn_crit = <<0, 0>>
    /\ turn_out = "none"
    /\ search_in = "none"
    /\ search_out = "none"
    /\ input = {}
    /\ cameras = 1
    /\ game_state = "Playing"
    /\ comps = [e \in {1} |-> DefaultMonsterStats]
    /\ selected = {1}
    /\ party = {1}
    /\ enemy = {}
    /\ boss = {}
    /\ game_progress = new_monster(DefaultGameProgress, 1, DefaultMonsterStats)
    /\ npcs = 0
    /\ events = <<>>
    /\ panicked = FALSE
    /\ player_health_text = <<>>
    /\ enemy_health_text = <<>>

\* format!("{}", n) of a signed integer: a minus sign when n is negative,
\* then the decimal digits of its magnitude
Rendered(n) == [minus |-> n < 0, digits |-> IF n < 0 THEN 0 - n ELSE n]

\* the health the loop over a query leaves in its local: that of the entity
\* iterated last, or the initial 0 when the query matches nothing
LastHealth(cs, query) ==
    IF query \cap DOMAIN cs = {} THEN {0}
    ELSE {cs[e].hp.health : e \in query \cap DOMAIN cs}

\* update_battle_stats over the live components cs: the texts it can write
update_battle_stats(cs) ==
    {[player |-> <<Rendered(my_health)>>, enemy |-> <<Rendered(enemy_health)>>] :
        my_health \in LastHealth(cs, selected), enemy_health \in LastHealth(cs, enemy)}

\* the health texts are spawned with an empty value section
setup_battle_stats ==
    /\ player_health_text' = <<>>
    /\ enemy_health_text' = <<>>

\* update_battle_stats in the frame of a tick: it runs before or after
\* key_press_handler, on the components as they are then, with the tags of
\* the start of the frame (commands are applied after both systems)
ShowStats(before, after) ==
    \E stats_first \in BOOLEAN :
        \E shown \in update_battle_stats(IF stats_first THEN before ELSE after) :
            /\ player_health_text' = shown.player
            /\ enemy_health_text' = shown.enemy

\* an encounter in the overworld: an enemy is spawned, tagged, recorded in
\* enemy_stats, and the outer state becomes Battle; the handler guards
\* against a Battle state entered without an enemy or without a camera
StartBattle ==
    /\ game_state = "Playing"
    /\ ~panicked
    /\ Cardinality(DOMAIN comps) < MaxEntities
    /\ \E spawned \in BOOLEAN :
          IF spawned
          THEN \E is_boss \in BOOLEAN :
                  LET e == Cardinality(DOMAIN comps) + 1
                      stats == EnemyStatsFor(game_progress.current_level, is_boss)
                  IN  /\ comps' = MapInsert(comps, e, stats)
                      /\ enemy' = enemy \cup {e}
                      /\ boss' = IF is_boss THEN boss \cup {e} ELSE boss
                      /\ game_progress' = [game_progress EXCEPT
                                              !.enemy_stats = MapInsert(@, e, stats)]
          ELSE \* the state is entered with no monster tagged Enemy
               UNCHANGED <<comps, enemy, boss, game_progress>>
    /\ cameras' \in {0, 1}
    /\ game_state' = "Battle"
    /\ input' = {}
    /\ events' = <<>>
    /\ setup_battle_stats
    /\ UNCHANGED <<turn_vars, search_vars, selected, party, npcs, panicked>>

\* progress in the overworld: the next level opens once the boss of the
\* current one is defeated
AdvanceLevel ==
    /\ game_state = "Playing"
    /\ ~panicked
    /\ game_progress.current_level < MaxLevel
    /\ game_progress.current_level <= game_progress.num_boss_defeated
    /\ game_progress' = [game_progress EXCEPT !.current_level = @ + 1]
    /\ UNCHANGED <<turn_vars, search_vars, input, cameras, game_state, comps, selected,
                   party, enemy, boss, npcs, events, panicked, display_vars>>

\* one frame in the Battle state: key_press_handler and update_battle_stats
\* run, in either order, and the frame is rendered; then the commands are
\* applied (a state left is left before the next frame, and its texts are
\* despawned with it: the variables keep what the last frame showed)
Tick(pressed, enemy_action, crit0, crit1, overflow_checks) ==
    /\ game_state = "Battle"
    /\ ~panicked
    /\ input' = pressed
    /\ \E c \in {key_press_handler(pressed, enemy_action, crit0, crit1, overflow_checks)} :
        /\ c.gp.num_living_monsters >= 0 - MaxWrapped
        /\ IF c.panic
           THEN \* the messages logged before the panic are out; the rest is lost
                /\ panicked' = TRUE
                /\ events' = c.ev
                /\ UNCHANGED <<game_state, comps, selected, party, enemy, boss,
                               game_progress, npcs>>
                /\ \/ ShowStats(comps, comps)
                   \/ UNCHANGED display_vars
           ELSE \E w \in {ApplyCommands(World(c.comps, selected, party, enemy, boss,
                                              game_state, npcs), c.cmds)} :
                /\ panicked' = FALSE
                /\ comps' = w.comps
                /\ selected' = w.selected
                /\ party' = w.party
                /\ enemy' = w.enemy
                /\ boss' = w.boss
                /\ game_state' = w.game_state
                /\ npcs' = w.npcs
                /\ game_progress' = c.gp
                /\ events' = c.ev
                /\ ShowStats(comps, c.comps)
    /\ UNCHANGED <<turn_vars, search_vars, cameras>>

\* the keys in the order the handler tests them
KeyOrder == <<"A", "E", "Q", "D", "C", "Key1", "Key2">>

\* the sets of keys just-pressed in one frame: none, one key, or one key
\* together with every key the handler tests after it
KeySets ==
    {{}} \cup {{KeyOrder[i]} : i \in 1..7}
         \cup {{KeyOrder[j] : j \in i..7} : i \in 1..6}

FirstKey(pressed) ==
    IF "A" \in pressed THEN "A"
    ELSE IF "E" \in pressed THEN "E"
    ELSE IF "Q" \in pressed THEN "Q"
    ELSE IF "D" \in pressed THEN "D"
    ELSE IF "C" \in pressed THEN "C"
    ELSE IF "Key1" \in pressed THEN "Key1"
    ELSE IF "Key2" \in pressed THEN "Key2"
    ELSE "none"

\* the draw of one direction is made only when its crit branch is entered
Draws(stg, def) == IF stg.crt > def.crt_res THEN Rolls ELSE {0}

\* the outcomes of an unsigned decrement differ by build only at 0
OverflowChecks == IF game_progress.num_living_monsters = 0 THEN BOOLEAN ELSE {TRUE}

TickFight(key) ==
    \E pressed \in {ks \in KeySets : FirstKey(ks) = key}, enemy_action \in Actions,
       overflow_checks \in OverflowChecks :
        IF Cardinality(MyMonsterQuery) = 1 /\ Cardinality(EnemyMonsterQuery) = 1
        THEN LET p == comps[CHOOSE e \in MyMonsterQuery : TRUE]
                 e == comps[CHOOSE e \in EnemyMonsterQuery : TRUE]
             IN  \E crit0 \in Draws(p.stg, e.def), crit1 \in Draws(e.stg, p.def) :
                    Tick(pressed, enemy_action, crit0, crit1, overflow_checks)
        ELSE Tick(pressed, enemy_action, 0, 0, overflow_checks)

TickKey(key) ==
    \E pressed \in {ks \in KeySets : FirstKey(ks) = key} :
        Tick(pressed, 0, 0, 0, TRUE)

Attack == TickFight("A")
ElementalAttack == TickFight("E")
AbortBattle == TickKey("Q")
Defend == TickKey("D")
Cycle == TickKey("C")
HealItem == TickKey("Key1")
StrengthBuff == TickKey("Key2")
NoKey == TickKey("none")

Next ==
    \/ StartBattle
    \/ AdvanceLevel
    \/ Attack
    \/ ElementalAttack
    \/ AbortBattle
    \/ Defend
    \/ Cycle
    \/ HealItem
    \/ StrengthBuff
    \/ NoKey

Spec == Init /\ [][Next]_vars

----------------------------------------------------------------------------
(* SpecTurn: calculate_turn over drawn inputs                              *)

TurnAtk == {5, 12}
TurnDef == {5, 7}
TurnCrt == {0, 30, 130}
TurnCrtRes == {0, 30}
TurnCrtDmg == {3}
TurnRolls == {0, 30, 31, 100}

TurnStrength == [atk : TurnAtk, crt : TurnCrt, crt_dmg : TurnCrtDmg]
TurnDefense == [def : TurnDef, crt_res : TurnCrtRes]

TurnInputs ==
    [player_stg : TurnStrength, player_def : TurnDefense, player_type : Elements,
     player_action : Actions,
     enemy_stg : TurnStrength, enemy_def : TurnDefense, enemy_type : Elements,
     enemy_action : Actions]

InitTurn ==
    /\ turn_in \in TurnInputs
    /\ turn_crit \in TurnRolls \X TurnRolls
    /\ turn_out = "none"
    /\ search_in = "none"
    /\ search_out = "none"
    /\ input = {}
    /\ cameras = 1
    /\ game_state = "Playing"
    /\ comps = [e \in {1} |-> DefaultMonsterStats]
    /\ selected = {1}
    /\ party = {1}
    /\ enemy = {}
    /\ boss = {}
    /\ game_progress = new_monster(DefaultGameProgress, 1, DefaultMonsterStats)
    /\ npcs = 0
    /\ events = <<>>
    /\ panicked = FALSE
    /\ player_health_text = <<>>
    /\ enemy_health_text = <<>>

CalcTurn ==
    /\ turn_out = "none"
    /\ turn_out' = CallTurn(turn_in, turn_crit[1], turn_crit[2])
    /\ UNCHANGED <<turn_in, turn_crit>>
    /\ UNCHANGED <<search_vars, battle_vars>>

NextTurn == CalcTurn

SpecTurn == InitTurn /\ [][NextTurn]_vars

----------------------------------------------------------------------------
(* SpecSearch: next_monster_cyclic over drawn rosters                      *)

MaxRoster == 4       \* largest roster the search is run on

\* recorded healths: fallen below 0, fallen at 0, living
SearchHealths == {0 - 2, 0, 7}

\* the roster in the order the monsters joined: entity ids ascending, or
\* descending, so that an ordinal is never its entity's id throughout
SearchOrders(n) == {[i \in 1..n |-> i], [i \in 1..n |-> n + 1 - i]}

SearchProgress(order, healths) ==
    [DefaultGameProgress EXCEPT
        !.monster_id_entity = order,
        !.monster_entity_to_stats =
            [e \in 1..Len(order) |-> [DefaultMonsterStats EXCEPT !.hp.health = healths[e]]]]

SearchInputs ==
    UNION {{[gp |-> SearchProgress(order, healths), entity |-> e] :
               order \in SearchOrders(n), healths \in [1..n -> SearchHealths], e \in 1..n} :
           n \in 1..MaxRoster}

InitSearch ==
    /\ search_in \in SearchInputs
    /\ search_out = "none"
    /\ turn_in = "none"
    /\ turn_crit = <<0, 0>>
    /\ turn_out = "none"
    /\ input = {}
    /\ cameras = 1
    /\ game_state = "Playing"
    /\ comps = [e \in {1} |-> DefaultMonsterStats]
    /\ selected = {1}
    /\ party = {1}
    /\ enemy = {}
    /\ boss = {}
    /\ game_progress = new_monster(DefaultGameProgress, 1, DefaultMonsterStats)
    /\ npcs = 0
    /\ events = <<>>
    /\ panicked = FALSE
    /\ player_health_text = <<>>
    /\ enemy_health_text = <<>>

Search ==
    /\ search_out = "none"
    /\ search_out' = <<next_monster_cyclic(search_in.gp, search_in.entity)>>
    /\ UNCHANGED <<search_in, turn_vars, battle_vars>>

NextSearch == Search

SpecSearch == InitSearch /\ [][NextSearch]_vars

----------------------------------------------------------------------------
(* Claims about calculate_turn, checked under SpecTurn                     *)

TurnDone == turn_out # "none"

\* what each side's strike is worth before any elemental multiplier, written
\* out from the stats and the draw of that direction
Chance(stg, def) == stg.crt - def.crt_res

StrikeCrits(stg, def, crit) == stg.crt > def.crt_res /\ crit <= Chance(stg, def)

Strike(stg, def, crit) ==
    IF stg.atk <= def.def THEN 0
    ELSE IF StrikeCrits(stg, def, crit) THEN (stg.atk - def.def) * stg.crt_dmg
    ELSE stg.atk - def.def

NoDefend == turn_in.player_action # 1 /\ turn_in.enemy_action # 1

\* C1: when the player's or the enemy's action is Defend (1), calculate_turn
\* returns (0, 0), whatever the stats, the types and the other action.
C1_DefendCancelsDamage ==
    (TurnDone /\ (turn_in.player_action = 1 \/ turn_in.enemy_action = 1))
        => turn_out = <<0, 0>>

\* the scenario atk 12, crt 0 against def 7, crt_res 0, Attack against Defend
C1_Witness ==
    /\ TurnDone
    /\ turn_in.player_action = 0 /\ turn_in.enemy_action = 1
    /\ turn_in.player_stg.atk = 12 /\ turn_in.player_stg.crt = 0
    /\ turn_in.enemy_def.def = 7 /\ turn_in.enemy_def.crt_res = 0
    /\ turn_in.enemy_stg.atk = 12 /\ turn_in.player_def.def = 5
    /\ turn_out = <<0, 0>>

\* C2: in each direction, atk <= def gives damage exactly 0 whatever the
\* actions and draws (no floor of 1, no crit or elemental effect raises it);
\* with atk > def, no crit and no elemental multiplier the damage is atk - def.
C2_BaseDamage ==
    TurnDone =>
        /\ (turn_in.player_stg.atk <= turn_in.enemy_def.def => turn_out[1] = 0)
        /\ (turn_in.enemy_stg.atk <= turn_in.player_def.def => turn_out[2] = 0)
        /\ (/\ NoDefend
            /\ turn_in.player_stg.atk > turn_in.enemy_def.def
            /\ turn_in.player_action # 2
            /\ ~StrikeCrits(turn_in.player_stg, turn_in.enemy_def, turn_crit[1]))
           => turn_out[1] = turn_in.player_stg.atk - turn_in.enemy_def.def
        /\ (/\ NoDefend
            /\ turn_in.enemy_stg.atk > turn_in.player_def.def
            /\ turn_in.enemy_action # 2
            /\ ~StrikeCrits(turn_in.enemy_stg, turn_in.player_def, turn_crit[2]))
           => turn_out[2] = turn_in.enemy_stg.atk - turn_in.player_def.def

\* atk 12 against def 5 with the draw above the chance: 7; the other
\* direction has atk 5 against def 5 and an elemental action: 0
C2_Witness ==
    /\ TurnDone
    /\ turn_in.player_action = 0 /\ turn_in.enemy_action = 2
    /\ turn_in.player_stg.atk = 12 /\ turn_in.enemy_def.def = 5
    /\ turn_in.player_stg.crt = 30 /\ turn_in.enemy_def.crt_res = 0
    /\ turn_crit[1] = 31
    /\ turn_in.enemy_stg.atk = 5 /\ turn_in.player_def.def = 5
    /\ turn_in.enemy_stg.crt = 130
    /\ turn_out = <<7, 0>>

\* C3: crt_dmg multiplies a direction's damage exactly when the acting
\* side's crt exceeds the other side's crt_res and the draw is at most
\* crt - crt_res; so a draw of 0 crits whenever the chance is > 0 and a draw
\* of 100 does not crit when the chance is < 100.  Read off the damage of
\* exchanges with no defend and no elemental multiplier (crt_dmg is not 1).
C3_CritRule ==
    (TurnDone /\ NoDefend) =>
        /\ (turn_in.player_action # 2 /\ turn_in.player_stg.atk > turn_in.enemy_def.def)
           => LET base == turn_in.player_stg.atk - turn_in.enemy_def.def
                  chance == turn_in.player_stg.crt - turn_in.enemy_def.crt_res
                  crits == turn_out[1] = base * turn_in.player_stg.crt_dmg
              IN  /\ turn_out[1] \in {base, base * turn_in.player_stg.crt_dmg}
                  /\ crits <=> (chance > 0 /\ turn_crit[1] <= chance)
                  /\ (turn_crit[1] = 0 /\ chance > 0) => crits
                  /\ (turn_crit[1] = 100 /\ chance < 100) => ~crits
        /\ (turn_in.enemy_action # 2 /\ turn_in.enemy_stg.atk > turn_in.player_def.def)
           => LET base == turn_in.enemy_stg.atk - turn_in.player_def.def
                  chance == turn_in.enemy_stg.crt - turn_in.player_def.crt_res
                  crits == turn_out[2] = base * turn_in.enemy_stg.crt_dmg
              IN  /\ turn_out[2] \in {base, base * turn_in.enemy_stg.crt_dmg}
                  /\ crits <=> (chance > 0 /\ turn_crit[2] <= chance)
                  /\ (turn_crit[2] = 0 /\ chance > 0) => crits
                  /\ (turn_crit[2] = 100 /\ chance < 100) => ~crits

\* the player crits on a draw equal to the chance (30), the enemy does not
\* on a draw of 100 with the same chance
C3_Witness ==
    /\ TurnDone
    /\ turn_in.player_action = 0 /\ turn_in.enemy_action = 0
    /\ turn_in.player_stg.atk = 12 /\ turn_in.enemy_def.def = 5
    /\ turn_in.player_stg.crt = 30 /\ turn_in.enemy_def.crt_res = 0
    /\ turn_crit = <<30, 100>>
    /\ turn_in.enemy_stg.atk = 12 /\ turn_in.player_def.def = 7
    /\ turn_in.enemy_stg.crt = 30 /\ turn_in.player_def.crt_res = 0
    /\ turn_out = <<21, 5>>

\* the table entry as a pair numerator / TypeDen
Modifier(a, b) == type_modifier[a + 1][b + 1]

\* C4: a side whose action is Elemental (2) deals
\* trunc(damage * type_modifier[its type][the other type]), damage being what
\* its strike is worth without the multiplier; the other side's damage is
\* not multiplied unless it chose Elemental too; with a modifier of 1.0 the
\* damage equals that of the plain action for the same stats and draws.
C4_Elemental ==
    (TurnDone /\ NoDefend) =>
        LET s0 == Strike(turn_in.player_stg, turn_in.enemy_def, turn_crit[1])
            s1 == Strike(turn_in.enemy_stg, turn_in.player_def, turn_crit[2])
            m0 == Modifier(turn_in.player_type, turn_in.enemy_type)
            m1 == Modifier(turn_in.enemy_type, turn_in.player_type)
            plain == CallTurn([turn_in EXCEPT !.player_action = 0, !.enemy_action = 0],
                              turn_crit[1], turn_crit[2])
        IN  /\ turn_in.player_action = 2 => turn_out[1] = (s0 * m0) \div TypeDen
            /\ turn_in.player_action # 2 => turn_out[1] = s0
            /\ turn_in.enemy_action = 2 => turn_out[2] = (s1 * m1) \div TypeDen
            /\ turn_in.enemy_action # 2 => turn_out[2] = s1
            /\ (turn_in.player_action = 2 /\ m0 = TypeDen) => turn_out[1] = plain[1]
            /\ (turn_in.enemy_action = 2 /\ m1 = TypeDen) => turn_out[2] = plain[2]

\* player of type 0 uses Elemental on type 2 (0.5): trunc(7 * 0.5) = 3; the
\* enemy attacks plainly and its 5 stays 5 although [2][0] is 1.5
C4_Witness ==
    /\ TurnDone
    /\ turn_in.player_action = 2 /\ turn_in.enemy_action = 0
    /\ turn_in.player_type = 0 /\ turn_in.enemy_type = 2
    /\ turn_in.player_stg.atk = 12 /\ turn_in.enemy_def.def = 5
    /\ turn_in.player_stg.crt = 0
    /\ turn_in.enemy_stg.atk = 12 /\ turn_in.player_def.def = 7
    /\ turn_in.enemy_stg.crt = 0
    /\ turn_out = <<3, 5>>

----------------------------------------------------------------------------
(* Claims about the battle ticks, checked under Spec                       *)

Ledger == game_progress.monster_entity_to_stats

Roster == {game_progress.monster_id_entity[i] : i \in DOMAIN game_progress.monster_id_entity}

Logged(ev, msg) == \E i \in DOMAIN ev : ev[i] = msg

VictoryMsg == "Enemy monster defeated. Your monsters will level up!"

\* a tick of a running battle that enters the victory branch: the enemy's
\* health has reached <= 0
VictoryTick == game_state = "Battle" /\ Logged(events', VictoryMsg)

\* C5: a level-up by 1 of a roster monster changes its bundle by exactly
\* level +1, max_health +10, atk +2, crt +5, def +1, leaves the rest alone,
\* and sets health to the new max_health whatever the health was before; the
\* bundle replaces the monster's live components, whose health may have been
\* 0 or negative.
C5_LevelUpByOne ==
    [][\A e \in DOMAIN Ledger :
          (e \in DOMAIN Ledger' /\ Ledger'[e].lvl.level = Ledger[e].lvl.level + 1)
          => LET a == Ledger[e]
                 b == Ledger'[e]
             IN  /\ b.hp.max_health = a.hp.max_health + 10
                 /\ b.hp.health = a.hp.max_health + 10
                 /\ b.stg.atk = a.stg.atk + 2
                 /\ b.stg.crt = a.stg.crt + 5
                 /\ b.stg.crt_dmg = a.stg.crt_dmg
                 /\ b.def.def = a.def.def + 1
                 /\ b.def.crt_res = a.def.crt_res
                 /\ b.typing = a.typing
                 /\ comps'[e] = b]_vars

\* after the second victory the first monster is at level 3 with 30 of 30
\* health, and every monster of the roster is at full health although only
\* two of the three count as living: one was levelled up from health <= 0
C5_Witness ==
    /\ game_state = "Playing"
    /\ Logged(events, VictoryMsg)
    /\ RosterSize(game_progress) = 3
    /\ game_progress.num_living_monsters = 2
    /\ comps[1].lvl.level = 3
    /\ comps[1].hp = [health |-> 30, max_health |-> 30]
    /\ comps[1].stg.atk = 10 /\ comps[1].stg.crt = 35 /\ comps[1].def.def = 3
    /\ \A e \in Roster : comps[e].hp.health = comps[e].hp.max_health

\* C6: a tick that defeats a Boss-tagged enemy increments num_boss_defeated
\* by exactly one and leaves every monster of the party 2 levels higher.
C6_BossVictoryLevelsTwice ==
    [][(VictoryTick /\ EnemyMonsterQuery \subseteq boss)
        => /\ game_progress'.num_boss_defeated = game_progress.num_boss_defeated + 1
           /\ \A e \in Roster : Ledger'[e].lvl.level = Ledger[e].lvl.level + 2]_vars

\* C7: a tick that defeats an enemy not tagged Boss appends exactly that
\* enemy to the roster and leaves num_boss_defeated unchanged.
C7_NonBossVictory ==
    [][(VictoryTick /\ EnemyMonsterQuery \cap boss = {})
        => /\ RosterSize(game_progress') = RosterSize(game_progress) + 1
           /\ \E e \in EnemyMonsterQuery :
                 game_progress'.monster_id_entity = Append(game_progress.monster_id_entity, e)
           /\ DOMAIN Ledger' = DOMAIN Ledger \cup EnemyMonsterQuery
           /\ game_progress'.num_boss_defeated = game_progress.num_boss_defeated]_vars

\* C8: at most one monster holds SelectedMonster once the tag changes a tick
\* queued have been applied.
C8_AtMostOneSelected == Cardinality(selected) <= 1

\* C9: a monster has an enemy_stats entry exactly while it is tagged Enemy.
C9_EnemyStatsWhileEnemy == DOMAIN game_progress.enemy_stats = enemy

\* C10: a tick that starts with the active monster at health <= 0 processes
\* no pressed action: no health, inventory, buff counter or living-monster
\* count changes and no monster joins the roster.
C10_PreTurnOnly ==
    [][(/\ game_state = "Battle"
        /\ Cardinality(MyMonsterQuery) = 1
        /\ Cardinality(EnemyMonsterQuery) = 1
        /\ \A e \in MyMonsterQuery : comps[e].hp.health <= 0)
        => /\ \A e \in DOMAIN comps : comps'[e].hp.health = comps[e].hp.health
           /\ game_progress'.player_inventory = game_progress.player_inventory
           /\ game_progress'.turns_left_of_buff = game_progress.turns_left_of_buff
           /\ game_progress'.num_living_monsters = game_progress.num_living_monsters
           /\ game_progress'.monster_id_entity = game_progress.monster_id_entity]_vars

DefeatMsg == "Your monster was defeated."

AttackLogged(ev) == Logged(ev, "You attack!") \/ Logged(ev, "You use your elemental attack!")

\* a tick of a running battle that concludes it, by victory or by the defeat
\* of the last living monster
ConcludeTick ==
    game_state = "Battle" /\ (Logged(events', VictoryMsg) \/ Logged(events', DefeatMsg))

\* C11: when a battle concludes by victory or by total defeat, after the
\* tick exactly the monster at roster ordinal 0 holds SelectedMonster, the
\* former enemy no longer holds Enemy, and the outer state is Playing.
C11_ConcludeReselectsFirst ==
    [][ConcludeTick
        => /\ selected' = {EntityAt(game_progress', 0)}
           /\ EnemyMonsterQuery \cap enemy' = {}
           /\ game_state' = "Playing"]_vars

\* a tick in which Attack or ElementalAttack was processed and left the
\* enemy alive and the active monster at health <= 0
PlayerFallsTick ==
    /\ game_state = "Battle"
    /\ AttackLogged(events')
    /\ ~Logged(events', VictoryMsg)
    /\ \A p \in MyMonsterQuery : comps'[p].hp.health <= 0

\* C12: such a tick takes exactly one off num_living_monsters, a count that
\* stays a count; it moves SelectedMonster to the next living monster and
\* the battle goes on, or, when there is none, the battle ends in defeat;
\* the roster, every level and num_boss_defeated are unchanged.
C12_PlayerFalls ==
    [][PlayerFallsTick
        => /\ game_progress.num_living_monsters >= 1
           /\ game_progress'.num_living_monsters = game_progress.num_living_monsters - 1
           /\ \A p \in MyMonsterQuery :
                 LET n == next_monster_cyclic(game_progress, p)
                 IN  IF n # 0
                     THEN selected' = {n} /\ game_state' = "Battle"
                     ELSE game_state' = "Playing"
           /\ game_progress'.monster_id_entity = game_progress.monster_id_entity
           /\ \A e \in Roster : /\ Ledger'[e].lvl.level = Ledger[e].lvl.level
                                /\ comps'[e].lvl.level = comps[e].lvl.level
           /\ game_progress'.num_boss_defeated = game_progress.num_boss_defeated]_vars

----------------------------------------------------------------------------
(* Claims about next_monster_cyclic, checked under SpecSearch              *)

SearchDone == search_out # "none"

\* the roster of the call: its size, the ordinal of the current monster, and
\* whether the monster at an ordinal has health > 0
SearchSize == Len(search_in.gp.monster_id_entity)

SearchFrom == CHOOSE c \in 0..(SearchSize - 1) :
                  search_in.gp.monster_id_entity[c + 1] = search_in.entity

SearchAt(i) == search_in.gp.monster_id_entity[i + 1]

SearchLiving(i) == search_in.gp.monster_entity_to_stats[SearchAt(i)].hp.health > 0

----------------------------------------------------------------------------
(* Claims about the other actions of a tick, checked under Spec            *)

CycleMsg == "Cycling to next monster in party."

NoCycleMsg == "No monster to cycle to."

\* the active monster stands at the start of the tick, so the pre-turn block
\* does nothing and the pressed action is the whole tick
ActiveStands == \A p \in MyMonsterQuery : comps[p].hp.health > 0

\* a tick whose action is CycleMonster
CycleTick ==
    /\ game_state = "Battle"
    /\ ActiveStands
    /\ Logged(events', CycleMsg) \/ Logged(events', NoCycleMsg)

Matched ==
    /\ Cardinality(MyMonsterQuery) = 1
    /\ Cardinality(EnemyMonsterQuery) = 1
    /\ cameras > 0

\* a tick of a running battle in which `key` is the pressed key the handler
\* acts on
KeyTick(key) == game_state = "Battle" /\ Matched /\ FirstKey(input') = key

Min(a, b) == IF a < b THEN a ELSE b

HealAmount == game_progress.current_level * 3

\* C15: UseHealItem with a heal item takes exactly one off
\* player_inventory[0] and sets the health of every monster of the roster,
\* the active one and fallen ones included, to
\* min(max_health, health + current_level * 3), so that no health exceeds
\* its max_health.
C15_HealAll ==
    [][(KeyTick("Key1") /\ game_progress.player_inventory[1] > 0)
        => /\ game_progress'.player_inventory[1] = game_progress.player_inventory[1] - 1
           /\ \A e \in Roster :
                 /\ comps'[e].hp.health =
                        Min(comps[e].hp.max_health, comps[e].hp.health + HealAmount)
                 /\ comps'[e].hp.max_health = comps[e].hp.max_health
                 /\ comps'[e].hp.health <= comps'[e].hp.max_health]_vars

\* the only heal item has been used: the fallen first monster went from -20
\* to -17, the active second one stays at its max_health of 20
C15_Witness ==
    /\ game_state = "Battle"
    /\ FirstKey(input) = "Key1"
    /\ events = <<"health restored.">>
    /\ game_progress.player_inventory[1] = 0
    /\ game_progress.monster_id_entity = <<1, 2>>
    /\ selected = {2}
    /\ comps[1].hp.health = 0 - 17
    /\ comps[2].hp = [health |-> 20, max_health |-> 20]

\* the monsters of the roster a heal brings from health <= 0 to health > 0
Revived == {e \in Roster : comps[e].hp.health <= 0 /\ comps'[e].hp.health > 0}

\* C16: UseHealItem adds to num_living_monsters exactly the number of roster
\* monsters, the active one included, that it brings from health <= 0 to
\* health > 0.
C16_ResurrectionCount ==
    [][(KeyTick("Key1") /\ game_progress.player_inventory[1] > 0)
        => game_progress'.num_living_monsters =
               game_progress.num_living_monsters + Cardinality(Revived)]_vars

\* C17: UseHealItem without a heal item and UseStrengthBuff without a buff
\* item do nothing: the inventory stays at 0, no message is logged, and no
\* health, buff counter, living-monster count, tag or outer state changes.
C17_EmptyInventoryNoOp ==
    [][(/\ ActiveStands
        /\ \/ KeyTick("Key1") /\ game_progress.player_inventory[1] = 0
           \/ KeyTick("Key2") /\ game_progress.player_inventory[2] = 0)
        => /\ game_progress' = game_progress
           /\ comps' = comps
           /\ events' = <<>>
           /\ UNCHANGED <<game_state, selected, party, enemy, boss, npcs, panicked>>]_vars

\* the buff key was pressed in the first battle, before any item was won
C17_Witness ==
    /\ game_state = "Battle"
    /\ FirstKey(input) = "Key2"
    /\ game_progress.player_inventory = <<0, 0>>
    /\ game_progress.turns_left_of_buff = <<0>>
    /\ events = <<>>
    /\ selected = {1}
    /\ comps[1].hp.health > 0
    /\ enemy = {2}

\* C18: UseStrengthBuff with a buff item takes exactly one off
\* player_inventory[1] and sets turns_left_of_buff[0] to 5 whatever it was;
\* turns_left_of_buff[0] never exceeds 5.
C18_BuffSetsFive ==
    [][/\ (KeyTick("Key2") /\ game_progress.player_inventory[2] > 0)
           => /\ game_progress'.player_inventory[2] = game_progress.player_inventory[2] - 1
              /\ game_progress'.player_inventory[1] = game_progress.player_inventory[1]
              /\ game_progress'.turns_left_of_buff = <<5>>
       /\ game_progress'.turns_left_of_buff[1] <= 5]_vars

\* both buff items of the first victory have been used in the second
\* battle: the counter is 5, not more
C18_Witness ==
    /\ game_state = "Battle"
    /\ FirstKey(input) = "Key2"
    /\ events = <<"You used a strength buff.">>
    /\ game_progress.player_inventory[2] = 0
    /\ game_progress.num_boss_defeated = 0
    /\ RosterSize(game_progress) = 2
    /\ game_progress.turns_left_of_buff = <<5>>

\* C19: an Abort strips the Enemy tag from the opponent and sets the outer
\* state to Playing in the same tick, with no capture and no leveling: the
\* roster, every roster monster's stats and health, the inventory, the buff
\* counters, num_living_monsters and num_boss_defeated are unchanged, and so
\* is the enemy's health: no turn is resolved.
C19_AbortFrame ==
    [][KeyTick("Q")
        => /\ enemy' = enemy \ EnemyMonsterQuery
           /\ game_state' = "Playing"
           /\ ~panicked'
           /\ game_progress'.monster_id_entity = game_progress.monster_id_entity
           /\ Ledger' = Ledger
           /\ comps' = comps
           /\ party' = party
           /\ game_progress'.player_inventory = game_progress.player_inventory
           /\ game_progress'.turns_left_of_buff = game_progress.turns_left_of_buff
           /\ game_progress'.num_living_monsters = game_progress.num_living_monsters
           /\ game_progress'.num_boss_defeated = game_progress.num_boss_defeated]_vars

\* the first battle has been left by Q: the enemy lost its tag and did not
\* join the roster
C19_Witness ==
    /\ game_state = "Playing"
    /\ FirstKey(input) = "Q"
    /\ events = <<>>
    /\ DOMAIN comps = {1, 2}
    /\ enemy = {}
    /\ party = {1}
    /\ game_progress.monster_id_entity = <<1>>
    /\ comps[1] = DefaultMonsterStats

\* C20: a tick with no monster for the active-player query, none for the
\* enemy query, or no camera sets the outer state to Playing and does
\* nothing else: GameProgress, every monster's stats and every tag are
\* unchanged, whatever key is pressed, and the handler does not panic.
C20_MissingCombatant ==
    [][(/\ game_state = "Battle"
        /\ \/ MyMonsterQuery = {}
           \/ EnemyMonsterQuery = {}
           \/ cameras = 0)
        => /\ game_state' = "Playing"
           /\ ~panicked'
           /\ game_progress' = game_progress
           /\ comps' = comps
           /\ UNCHANGED <<selected, party, enemy, boss, npcs>>]_vars

\* the Battle state was entered with no monster tagged Enemy, A was pressed,
\* and the tick went back to Playing with the monster untouched
C20_Witness ==
    /\ game_state = "Playing"
    /\ FirstKey(input) = "A"
    /\ events = <<"Monsters are missing!">>
    /\ enemy = {}
    /\ ~panicked
    /\ comps = [e \in {1} |-> DefaultMonsterStats]

----------------------------------------------------------------------------
(* Claims about captures, buffs and the outcome of an exchange             *)

\* C21: after every tick no monster holds both PartyMonster and Enemy and no
\* monster of the roster is tagged Enemy; the tick that captures a defeated
\* enemy gives it PartyMonster and takes its Enemy tag.
C21_PartyNeverEnemy ==
    [][/\ party' \cap enemy' = {}
       /\ \A e \in enemy' : ~InRoster(game_progress', e)
       /\ (VictoryTick /\ ~panicked')
           => \A e \in EnemyMonsterQuery : e \in party' /\ e \notin enemy']_vars

\* the enemy of the first battle has been captured: it is in the party and
\* in the roster, and nothing is tagged Enemy
C21_Witness ==
    /\ game_state = "Playing"
    /\ ~panicked
    /\ Logged(events, VictoryMsg)
    /\ party = {1, 2}
    /\ enemy = {}
    /\ game_progress.monster_id_entity = <<1, 2>>

Charges == game_progress.turns_left_of_buff[1]

\* a tick of a running battle whose action is Attack or ElementalAttack
AttackTick == KeyTick("A") \/ KeyTick("E")

\* the enemy action of the tick, read off the message logged for it
DrawnAction(ev) == CHOOSE a \in Actions : Logged(ev, EnemyActionMsg(a))

\* the pair of damages of the exchange of this tick for the given crit
\* draws, when the player's monster p strikes with `bonus` added to its atk
Exchange(p, e, bonus, crit0, crit1) ==
    CallTurn(TurnArgs([comps[p].stg EXCEPT !.atk = @ + bonus], comps[p].def,
                      comps[p].typing, IF FirstKey(input') = "A" THEN 0 ELSE 2,
                      comps[e].stg, comps[e].def, comps[e].typing,
                      DrawnAction(events')),
             crit0, crit1)

\* both healths after the tick are the healths before it less the damages
\* of the exchange, for some crit draws
ExchangeApplied(bonus) ==
    \A p \in MyMonsterQuery, e \in EnemyMonsterQuery :
        \E crit0 \in Rolls, crit1 \in Rolls :
            /\ comps'[e].hp.health = comps[e].hp.health - Exchange(p, e, bonus, crit0, crit1)[1]
            /\ comps'[p].hp.health = comps[p].hp.health - Exchange(p, e, bonus, crit0, crit1)[2]

C23_BuffIsTemporary ==
    [][/\ (AttackTick /\ ~panicked' /\ ~Logged(events', VictoryMsg))
           => \A p \in MyMonsterQuery : comps'[p].stg = comps[p].stg
       /\ (AttackTick /\ ~panicked' /\ Logged(events', VictoryMsg))
           => \A e \in Roster \cup EnemyMonsterQuery :
                 comps'[e].stg.atk = comps[e].stg.atk + 2
       /\ \A i \in DOMAIN game_progress'.monster_id_entity :
             comps'[game_progress'.monster_id_entity[i]].stg.atk
                 = Ledger'[game_progress'.monster_id_entity[i]].stg.atk]_vars

\* in the second battle a buffed attack was resolved and the enemy stands:
\* the first monster, at level 2, has its atk of 8 while current_level is 1
C23_Witness ==
    /\ game_state = "Battle"
    /\ FirstKey(input) \in {"A", "E"}
    /\ Logged(events, BuffMsg)
    /\ ~Logged(events, VictoryMsg)
    /\ selected = {1}
    /\ comps[1].lvl.level = 2
    /\ comps[1].stg.atk = 8
    /\ comps[1].hp.health > 0
    /\ Charges = 4

\* C24: a monster that joins the roster comes from enemy_stats; after the
\* tick its recorded max_health and health are current_level * 10 plus the 10
\* of the level-up that follows the registration, whatever health the enemy
\* entry had, boss or not, and its other stats are those of the entry after
\* one level-up; the live bundle is the recorded one.
C24_CaptureClamped ==
    [][\A e \in DOMAIN Ledger' \ DOMAIN Ledger :
          /\ e \in DOMAIN game_progress.enemy_stats
          /\ LET got == game_progress.enemy_stats[e]
                 b == Ledger'[e]
             IN  /\ b.hp.max_health = game_progress.current_level * 10 + 10
                 /\ b.hp.health = game_progress.current_level * 10 + 10
                 /\ b.lvl.level = got.lvl.level + 1
                 /\ b.stg.atk = got.stg.atk + 2
                 /\ b.stg.crt = got.stg.crt + 5
                 /\ b.stg.crt_dmg = got.stg.crt_dmg
                 /\ b.def.def = got.def.def + 1
                 /\ b.def.crt_res = got.def.crt_res
                 /\ b.typing = got.typing
                 /\ comps'[e] = b]_vars

\* the boss of the first level, spawned with 15 health, has been captured
\* as the third monster: it is recorded with 20 of 20 health
C24_Witness ==
    /\ game_state = "Playing"
    /\ Logged(events, "Boss defeated!")
    /\ game_progress.current_level = 1
    /\ game_progress.monster_id_entity = <<1, 2, 3>>
    /\ Ledger[3].hp = [health |-> 20, max_health |-> 20]
    /\ Ledger[3].def.crt_res = 40
    /\ comps[3] = Ledger[3]

\* C25: a victory over an enemy not tagged Boss levels up, by exactly 1,
\* the party monsters that are alive, and leaves the level, the stats and the
\* health of a party monster with health <= 0 as they were.
C25_OnlyLivingLevelUp ==
    [][(VictoryTick /\ ~panicked' /\ EnemyMonsterQuery \cap boss = {})
        => \A e \in Roster \ MyMonsterQuery :
              IF comps[e].hp.health > 0
              THEN Ledger'[e].lvl.level = Ledger[e].lvl.level + 1
              ELSE comps'[e] = comps[e] /\ Ledger'[e] = Ledger[e]]_vars

\* the damages of the exchange of this tick with the buff bonus that is due
Damages(p, e, crit0, crit1) ==
    Exchange(p, e, IF Charges > 0 THEN game_progress.current_level ELSE 0, crit0, crit1)

\* C26: in an Attack or ElementalAttack tick that starts with the active
\* monster standing and that the handler completes, both damages are
\* calculated from the stats the tick starts with.  If the enemy's health
\* goes to <= 0 the outcome is the victory, whether or not the active
\* monster's went to <= 0 as well: the enemy is captured, the battle ends, no
\* defeat is handled and num_living_monsters only grows by the captured
\* monster.  Otherwise both healths are lowered in this tick.
C26_ExchangeVictoryFirst ==
    [][(AttackTick /\ ActiveStands /\ ~panicked')
        => \A p \in MyMonsterQuery, e \in EnemyMonsterQuery :
              \E crit0 \in Rolls, crit1 \in Rolls :
                 IF comps[e].hp.health - Damages(p, e, crit0, crit1)[1] <= 0
                 THEN /\ Logged(events', VictoryMsg)
                      /\ ~Logged(events', DefeatMsg)
                      /\ ~Logged(events', "Your monster was defeated. Switching to next monster.")
                      /\ game_state' = "Playing"
                      /\ e \in party' /\ e \notin enemy'
                      /\ InRoster(game_progress', e)
                      /\ game_progress'.num_living_monsters =
                             game_progress.num_living_monsters + 1
                 ELSE /\ ~Logged(events', VictoryMsg)
                      /\ comps'[e].hp.health =
                             comps[e].hp.health - Damages(p, e, crit0, crit1)[1]
                      /\ comps'[p].hp.health =
                             comps[p].hp.health - Damages(p, e, crit0, crit1)[2]]_vars

\* the first battle was won in an exchange in which the enemy attacked: its
\* 21 damage took the first monster, at no more than 10 health, below 0, and
\* yet the enemy was captured and two monsters count as living
C26_Witness ==
    /\ game_state = "Playing"
    /\ Logged(events, VictoryMsg)
    /\ Logged(events, "Enemy attacks!")
    /\ ~Logged(events, DefeatMsg)
    /\ game_progress.monster_id_entity = <<1, 2>>
    /\ game_progress.num_living_monsters = 2
    /\ game_progress.num_boss_defeated = 0
    /\ selected = {1}
    /\ ~panicked

----------------------------------------------------------------------------
(* The enemy's Special action, checked under SpecTurn                      *)

\* the player's damage when the enemy does not defend: the strike, times
\* the type multiplier when the player's action is ElementalAttack
PlayerSide ==
    IF turn_in.player_action = 2
    THEN (Modifier(turn_in.player_type, turn_in.enemy_type)
              * Strike(turn_in.player_stg, turn_in.enemy_def, turn_crit[1])) \div TypeDen
    ELSE Strike(turn_in.player_stg, turn_in.enemy_def, turn_crit[1])

\* C27: for enemy_action 3 (Special) calculate_turn returns what it returns
\* for enemy_action 0 (Attack) on the same stats, types, player action and
\* draws: (0, 0) when the player defends, otherwise the player's damage and
\* the enemy's plain strike, with no type multiplier on the enemy's side.
C27_SpecialIsAttack ==
    (TurnDone /\ turn_in.enemy_action \in {0, 3})
        => turn_out = IF turn_in.player_action = 1 THEN <<0, 0>>
                      ELSE << PlayerSide,
                              Strike(turn_in.enemy_stg, turn_in.player_def, turn_crit[2]) >>

\* a Special of an enemy of type 0 against a player of type 1, where an
\* elemental attack would double the damage: atk 12 on def 5 without a crit
\* deals 7
C27_Witness ==
    /\ TurnDone
    /\ turn_in.enemy_action = 3
    /\ turn_in.player_action = 0
    /\ turn_in.enemy_type = 0 /\ turn_in.player_type = 1
    /\ turn_in.enemy_stg.atk = 12 /\ turn_in.enemy_stg.crt = 0
    /\ turn_in.player_def.def = 5
    /\ turn_out[2] = 7

----------------------------------------------------------------------------
(* Claims about what a tick processes and how the battle is left           *)

\* a tick of a running battle whose action is CycleMonster, UseHealItem or
\* UseStrengthBuff
ItemOrCycleTick == KeyTick("C") \/ KeyTick("Key1") \/ KeyTick("Key2")

EnemyActed(ev) == \E a \in Actions : Logged(ev, EnemyActionMsg(a))

\* C28: a tick that processes CycleMonster, UseHealItem or UseStrengthBuff
\* is completed without an enemy action being drawn or a turn being
\* calculated: no health goes down, the enemy's bundle is untouched, and no
\* buff charge is taken (the counter is unchanged, or set to 5 by the buff
\* that was used).
C28_NoTurnConsumed ==
    [][ItemOrCycleTick
        => /\ ~panicked'
           /\ ~EnemyActed(events')
           /\ ~Logged(events', BuffMsg)
           /\ ~Logged(events', "You attack!")
           /\ ~Logged(events', "You use your elemental attack!")
           /\ \A e \in DOMAIN comps : comps'[e].hp.health >= comps[e].hp.health
           /\ \A e \in EnemyMonsterQuery : comps'[e] = comps[e]
           /\ \/ Charges' = Charges
              \/ /\ FirstKey(input') = "Key2"
                 /\ game_progress.player_inventory[2] > 0
                 /\ Charges' = 5]_vars

\* in the second battle a heal item was used while all five charges of a
\* buff were left: they still are, and the enemy has its full health
C28_Witness ==
    /\ game_state = "Battle"
    /\ FirstKey(input) = "Key1"
    /\ events = <<"health restored.">>
    /\ Charges = 5
    /\ enemy = {3}
    /\ comps[3].hp.health = comps[3].hp.max_health
    /\ ~panicked

SwitchMsg == "Your monster was defeated. Switching to next monster."

\* what shows in a tick of each action other than the one for `key`
OtherActionSeen(key) ==
    \/ key # "A" /\ Logged(events', "You attack!")
    \/ key # "E" /\ Logged(events', "You use your elemental attack!")
    \/ key \notin {"A", "E"}
          /\ (EnemyActed(events') \/ Logged(events', VictoryMsg) \/ Charges' < Charges)
    \/ key # "Q"
          /\ game_state' = "Playing"
          /\ ~Logged(events', VictoryMsg) /\ ~Logged(events', DefeatMsg)
    \/ key # "C" /\ (Logged(events', CycleMsg) \/ Logged(events', NoCycleMsg))
    \/ key # "Key1"
          /\ \/ Logged(events', "health restored.")
             \/ game_progress'.player_inventory[1] < game_progress.player_inventory[1]
    \/ key # "Key2"
          /\ \/ Logged(events', "You used a strength buff.")
             \/ game_progress'.player_inventory[2] < game_progress.player_inventory[2]

\* the exchange of an attack has been carried through in this tick: the
\* enemy was captured and the battle left, or both healths were lowered, the
\* enemy stands, and a fallen active monster was replaced or the battle left
AttackResolved ==
    /\ EnemyActed(events')
    /\ IF Logged(events', VictoryMsg)
       THEN /\ game_state' = "Playing"
            /\ \A e \in EnemyMonsterQuery : e \in party' /\ e \notin enemy'
       ELSE /\ ExchangeApplied(IF Charges > 0 THEN game_progress.current_level ELSE 0)
            /\ \A e \in EnemyMonsterQuery : comps'[e].hp.health > 0
            /\ \A p \in MyMonsterQuery :
                  comps'[p].hp.health <= 0
                      => \/ Logged(events', DefeatMsg) /\ game_state' = "Playing"
                         \/ Logged(events', SwitchMsg) /\ p \notin selected'

\* C29: a tick the handler completes shows the action of the first pressed
\* key in the order A, E, Q, D, C, Key1, Key2 and of no other key, however
\* many keys are pressed; an Attack or ElementalAttack is carried through to
\* its outcome within the tick.
C29_OneActionPerTick ==
    [][\A key \in Keys :
          (KeyTick(key) /\ ~panicked')
              => /\ ~OtherActionSeen(key)
                 /\ key = "A" => Logged(events', "You attack!") /\ AttackResolved
                 /\ key = "E" => Logged(events', "You use your elemental attack!")
                                    /\ AttackResolved]_vars

\* every key was pressed in one tick of the second battle, with a heal item
\* and two buff items in the inventory: the attack was processed, the items
\* are still there and no buff is running
C29_Witness ==
    /\ game_state = "Battle"
    /\ input = Keys
    /\ Logged(events, "You attack!")
    /\ game_progress.player_inventory = <<1, 2>>
    /\ Charges = 0
    /\ selected = {1}
    /\ enemy = {3}
    /\ ~panicked

MissingLogged(ev) == Logged(ev, "Monsters are missing!") \/ Logged(ev, "No spawned camera?")

\* C30: a tick takes the outer state from Battle to Playing only with a
\* victory, a total defeat, an Abort or a missing monster or camera.  A
\* completed tick with its monsters and camera that is none of these (an
\* attack that leaves both standing or ends in a switch, Defend,
\* CycleMonster, an item, no key) stays in Battle with the same monster
\* tagged Enemy; Defend, CycleMonster, an item or no key never end a battle
\* that the active monster entered standing.
C30_LeavesBattleOnlyBy ==
    [][/\ (game_state = "Battle" /\ game_state' = "Playing")
           => \/ Logged(events', VictoryMsg)
              \/ Logged(events', DefeatMsg)
              \/ Matched /\ FirstKey(input') = "Q"
              \/ ~Matched /\ MissingLogged(events')
       /\ (/\ game_state = "Battle" /\ Matched /\ ~panicked'
           /\ FirstKey(input') # "Q"
           /\ ~Logged(events', VictoryMsg) /\ ~Logged(events', DefeatMsg))
           => game_state' = "Battle" /\ enemy' = enemy
       /\ (/\ ActiveStands
           /\ \/ KeyTick("D") \/ KeyTick("C") \/ KeyTick("Key1")
              \/ KeyTick("Key2") \/ KeyTick("none"))
           => game_state' = "Battle" /\ enemy' = enemy /\ ~panicked']_vars

\* in the second battle the first monster fell to the enemy's attack and
\* the second one took over: the battle goes on against the same enemy
C30_Witness ==
    /\ game_state = "Battle"
    /\ FirstKey(input) \in {"A", "E"}
    /\ Logged(events, SwitchMsg)
    /\ selected = {2}
    /\ enemy = {3}
    /\ comps[1].hp.health <= 0
    /\ comps[3].hp.health > 0
    /\ ~panicked

----------------------------------------------------------------------------
(* Defend, and the count of living monsters                                *)

\* C32: a Defend tick that starts with the active monster standing changes
\* nothing: no message is logged (no enemy action is drawn, no turn is
\* calculated), and the components, GameProgress (buff counter, inventory,
\* roster), the tags and the outer state are after the tick what they were
\* before it.
C32_DefendNoOp ==
    [][(KeyTick("D") /\ ActiveStands)
        => /\ events' = <<>>
           /\ comps' = comps
           /\ game_progress' = game_progress
           /\ game_state' = "Battle"
           /\ UNCHANGED <<selected, party, enemy, boss, npcs, panicked>>]_vars

\* D was pressed in the second battle with all five charges of a buff left
C32_Witness ==
    /\ game_state = "Battle"
    /\ FirstKey(input) = "D"
    /\ events = <<>>
    /\ Charges = 5
    /\ selected = {1}
    /\ comps[1].hp.health > 0
    /\ enemy = {3}
    /\ comps[3].hp.health = comps[3].hp.max_health
    /\ ~panicked

\* the monsters of the roster whose live health is > 0
LivingRoster == {e \in Roster : comps[e].hp.health > 0}

\* C33: between ticks num_living_monsters is the number of roster monsters
\* whose health is > 0.
C33_LivingCount ==
    ~panicked => game_progress.num_living_monsters = Cardinality(LivingRoster)

\* C34: num_living_monsters never goes below 0, and it is taken down only
\* in a tick that the active monster entered standing, so that no defeat is
\* counted twice.
C34_NoUnderflow ==
    [][/\ game_progress'.num_living_monsters >= 0
       /\ game_progress'.num_living_monsters < game_progress.num_living_monsters
           => /\ game_progress.num_living_monsters > 0
              /\ \A p \in MyMonsterQuery : comps[p].hp.health > 0]_vars

\* C31: the health texts written by update_battle_stats for the active
\* player monster and for the enemy never show a negative value, in any
\* frame, the frame in which a stored health has dropped below 0 included
C31_NeverRenderedNegative ==
    /\ \A i \in DOMAIN player_health_text : ~player_health_text[i].minus
    /\ \A i \in DOMAIN enemy_health_text : ~enemy_health_text[i].minus

====
